---- MODULE Spec2Model ----
(***************************************************************************)
(* Model of the feature-dev chat Connector                                 *)
(* (plugins/amazonq/mynah-ui/src/mynah-ui/ui/apps/featureDevChatConnector) *)
(*                                                                         *)
(* The Connector keeps no data of its own: its observable behaviour is the *)
(* sequence of calls it makes on the injected functions.  The model        *)
(* records, for the operation in progress, the call that was made on the   *)
(* Connector (op) and the calls the Connector made in turn (calls), and    *)
(* the promises handed out by requestGenerativeAIAnswer (promises).        *)
(***************************************************************************)
EXTENDS Integers, Sequences, FiniteSets, TLC

VARIABLES
    onChatAnswerReceived,  \* props.onChatAnswerReceived: Undefined or a function
    onChatAnswerUpdated,   \* props.onChatAnswerUpdated: Undefined or a function
    pc,                    \* "idle": no operation running; "called": one has run
    op,                    \* the operation that ran: [method, args]
    calls,                 \* the calls it made on the injected functions, in order
    promises               \* the promises returned by requestGenerativeAIAnswer

vars == <<onChatAnswerReceived, onChatAnswerUpdated, pc, op, calls, promises>>

----------------------------------------------------------------------------
(* Bounds *)

MaxFiles == 2       \* longest filePaths sequence of an inbound record
MaxDeleted == 1     \* longest deletedFiles sequence of an inbound record
MaxFollowUps == 2   \* longest followUps sequence of an inbound record
MaxPromises == 1    \* promises of requestGenerativeAIAnswer that are tracked

----------------------------------------------------------------------------
(* JavaScript values.  Every value is tagged with its kind, so undefined,  *)
(* null, the empty string and the empty array are four different values.   *)

Undefined == [k |-> "undefined"]
Null == [k |-> "null"]
Str(s) == [k |-> "string", s |-> s]
Bool(b) == [k |-> "boolean", b |-> b]
Arr(a) == [k |-> "array", a |-> a]
Callback == [k |-> "function"]

\* Array.isArray(v)
IsArray(v) == v.k = "array"

\* obj.key on an untyped record: undefined when the key is absent
Get(obj, key) == IF key \in DOMAIN obj THEN obj[key] ELSE Undefined

\* a ?? b
NullishCoalesce(a, b) == IF a = Undefined \/ a = Null THEN b ELSE a

\* { ...a, ...b }: the keys of both, the later one winning
Spread(a, b) ==
    [key \in DOMAIN a \cup DOMAIN b |-> IF key \in DOMAIN b THEN b[key] ELSE a[key]]

\* array.map(f) for f = (path => path.zipFilePath)
MapZipFilePath(arr) == Arr([i \in 1..Len(arr.a) |-> arr.a[i].zipFilePath])

\* [...a, ...b]
Concat(a, b) == Arr(a.a \o b.a)

SeqsUpTo(S, n) == UNION {[1..len -> S] : len \in 0..n}

----------------------------------------------------------------------------
(* Values of the UI library and of the collaborators *)

ChatItemType_ANSWER == Str("answer")
ChatItemType_SYSTEM_PROMPT == Str("system-prompt")
ChatItemType_ANSWER_STREAM == Str("answer-stream")

\* FollowUpGenerator.generateAuthFollowUps(tabType, authType): the block is
\* built by the generator; here it is the term naming its two arguments.
generateAuthFollowUps(tabType, authType) ==
    [k |-> "authFollowUps", tabType |-> tabType, authType |-> authType]

\* getActions(files): built by the diff tree; here the term naming its argument.
getActions(files) == [k |-> "diffTreeActions", files |-> files]

----------------------------------------------------------------------------
(* Calls on the injected functions *)

Call(fn, args) == [fn |-> fn, args |-> args]

\* this.sendMessageToExtension(message)
Send(message) == Call("sendMessageToExtension", <<message>>)

----------------------------------------------------------------------------
(* Outbound methods: the record each hands to sendMessageToExtension *)

onCodeInsertToCursorPosition(tabID, code, type, codeReference) ==
    <<Send([tabID |-> tabID,
            code |-> code,
            command |-> Str("insert_code_at_cursor_position"),
            codeReference |-> codeReference,
            tabType |-> Str("featuredev")])>>

onCopyCodeToClipboard(tabID, code, type, codeReference) ==
    <<Send([tabID |-> tabID,
            code |-> code,
            command |-> Str("code_was_copied_to_clipboard"),
            codeReference |-> codeReference,
            tabType |-> Str("featuredev")])>>

onOpenDiff(tabID, filePath, deleted) ==
    <<Send([command |-> Str("open-diff"),
            tabID |-> tabID,
            filePath |-> filePath,
            deleted |-> deleted,
            tabType |-> Str("featuredev")])>>

followUpClicked(tabID, followUp) ==
    <<Send([command |-> Str("follow-up-was-clicked"),
            followUp |-> followUp,
            tabID |-> tabID,
            tabType |-> Str("featuredev")])>>

\* The executor of the promise: it sends, and calls neither resolve nor reject.
requestGenerativeAIAnswer(tabID, payload) ==
    <<Send([tabID |-> tabID,
            command |-> Str("chat-prompt"),
            chatMessage |-> Get(payload, "chatMessage"),
            tabType |-> Str("featuredev")])>>

onFileActionClick(tabID, messageId, filePath, actionName) ==
    <<Send([command |-> Str("file-click"),
            tabID |-> tabID,
            messageId |-> messageId,
            filePath |-> filePath,
            actionName |-> actionName,
            tabType |-> Str("featuredev")])>>

onStopChatResponse(tabID) ==
    <<Send([tabID |-> tabID,
            command |-> Str("stop-response"),
            tabType |-> Str("featuredev")])>>

onTabOpen(tabID) ==
    <<Send([tabID |-> tabID,
            command |-> Str("new-tab-was-created"),
            tabType |-> Str("featuredev")])>>

onTabRemove(tabID) ==
    <<Send([tabID |-> tabID,
            command |-> Str("tab-was-removed"),
            tabType |-> Str("featuredev")])>>

\* { command, ...feedbackPayload, tabType, tabID }: the payload's keys come
\* after command and before tabType and tabID.
sendFeedback(tabId, feedbackPayload) ==
    <<Send(Spread(Spread([command |-> Str("chat-item-feedback")], feedbackPayload),
                  [tabType |-> Str("featuredev"), tabID |-> tabId]))>>

onChatItemVoted(tabId, messageId, vote) ==
    <<Send([tabID |-> tabId,
            messageId |-> messageId,
            vote |-> vote,
            command |-> Str("chat-item-voted"),
            tabType |-> Str("featuredev")])>>

onResponseBodyLinkClick(tabID, messageId, link) ==
    <<Send([command |-> Str("response-body-link-click"),
            tabID |-> tabID,
            messageId |-> messageId,
            link |-> link,
            tabType |-> Str("featuredev")])>>

\* mutant: the executor resolves the promise once it has sent
PromiseAfterExecutor_Resolved == "fulfilled"

\* State of the promise requestGenerativeAIAnswer returns once its executor ran
PromiseAfterExecutor == "pending"

----------------------------------------------------------------------------
(* Answer construction *)

\* mutant: the five-field precedence of the code-result path
createAnswerMessageId_FivePrecedence(messageData) ==
    NullishCoalesce(Get(messageData, "messageId"),
      NullishCoalesce(Get(messageData, "messageID"),
        NullishCoalesce(Get(messageData, "triggerID"),
          NullishCoalesce(Get(messageData, "conversationID"),
            NullishCoalesce(Get(messageData, "codeGenerationId"), Str(""))))))

\* messageData.messageId ?? messageData.messageID ?? messageData.triggerID ?? ''
createAnswerMessageId(messageData) ==
    NullishCoalesce(Get(messageData, "messageId"),
      NullishCoalesce(Get(messageData, "messageID"),
        NullishCoalesce(Get(messageData, "triggerID"), Str(""))))

\* mutant: the prompt text is dropped for a system prompt only
createAnswerFollowUp_NoEmptyCheck(messageData) ==
    IF Get(messageData, "followUps") # Undefined /\ IsArray(Get(messageData, "followUps"))
    THEN [text |-> IF Get(messageData, "messageType") = ChatItemType_SYSTEM_PROMPT
                   THEN Str("")
                   ELSE Str("Please follow up with one of these"),
          options |-> Get(messageData, "followUps")]
    ELSE Undefined

createAnswerFollowUp(messageData) ==
    IF Get(messageData, "followUps") # Undefined /\ IsArray(Get(messageData, "followUps"))
    THEN [text |-> IF \/ Get(messageData, "messageType") = ChatItemType_SYSTEM_PROMPT
                      \/ Len(Get(messageData, "followUps").a) = 0
                   THEN Str("")
                   ELSE Str("Please follow up with one of these"),
          options |-> Get(messageData, "followUps")]
    ELSE Undefined

createAnswer(messageData) ==
    [type |-> Get(messageData, "messageType"),
     body |-> NullishCoalesce(Get(messageData, "message"), Undefined),
     messageId |-> createAnswerMessageId(messageData),
     relatedContent |-> Undefined,
     canBeVoted |-> NullishCoalesce(Get(messageData, "canBeVoted"), Undefined),
     snapToTop |-> NullishCoalesce(Get(messageData, "snapToTop"), Undefined),
     informationCard |-> NullishCoalesce(Get(messageData, "informationCard"), Undefined),
     followUp |-> createAnswerFollowUp(messageData)]

----------------------------------------------------------------------------
(* Inbound handlers: the calls each makes, in order *)

processChatMessage(messageData) ==
    IF onChatAnswerReceived # Undefined
    THEN <<Call("onChatAnswerReceived",
                <<Get(messageData, "tabID"), createAnswer(messageData)>>)>>
    ELSE <<>>

\* a || b
FalsyCoalesce(a, b) == IF a = Undefined \/ a = Null \/ a = Str("") THEN b ELSE a

\* mutant: || in place of ??
codeResultMessageId_Falsy(messageData) ==
    FalsyCoalesce(Get(messageData, "messageId"),
      FalsyCoalesce(Get(messageData, "messageID"),
        FalsyCoalesce(Get(messageData, "triggerID"),
          FalsyCoalesce(Get(messageData, "conversationID"),
                        Get(messageData, "codeGenerationId")))))

\* messageId ?? messageID ?? triggerID ?? conversationID ?? codeGenerationId
codeResultMessageId(messageData) ==
    NullishCoalesce(Get(messageData, "messageId"),
      NullishCoalesce(Get(messageData, "messageID"),
        NullishCoalesce(Get(messageData, "triggerID"),
          NullishCoalesce(Get(messageData, "conversationID"),
                          Get(messageData, "codeGenerationId")))))

codeResultAnswer(messageData) ==
    [type |-> ChatItemType_ANSWER,
     relatedContent |-> Undefined,
     followUp |-> Undefined,
     canBeVoted |-> Bool(TRUE),
     codeReference |-> Get(messageData, "references"),
     messageId |-> codeResultMessageId(messageData),
     fileList |-> [rootFolderTitle |-> Str("Changes"),
                   filePaths |-> MapZipFilePath(Get(messageData, "filePaths")),
                   deletedFiles |-> MapZipFilePath(Get(messageData, "deletedFiles")),
                   actions |-> getActions(Concat(Get(messageData, "filePaths"),
                                                 Get(messageData, "deletedFiles")))],
     body |-> Str("")]

\* mutant: the UI is told before the host
processCodeResultMessage_CallbackFirst(messageData) ==
    IF onChatAnswerReceived # Undefined
    THEN <<Call("onChatAnswerReceived",
                <<Get(messageData, "tabID"), codeResultAnswer(messageData)>>),
           Send([command |-> Str("store-code-result-message-id"),
                 tabID |-> Get(messageData, "tabID"),
                 messageId |-> codeResultMessageId(messageData),
                 tabType |-> Str("featuredev")])>>
    ELSE <<>>

\* mutant: the send is made before the callback is looked at
processCodeResultMessage_SendBeforeGate(messageData) ==
    <<Send([command |-> Str("store-code-result-message-id"),
            tabID |-> Get(messageData, "tabID"),
            messageId |-> codeResultMessageId(messageData),
            tabType |-> Str("featuredev")])>>
        \o (IF onChatAnswerReceived # Undefined
            THEN <<Call("onChatAnswerReceived",
                        <<Get(messageData, "tabID"), codeResultAnswer(messageData)>>)>>
            ELSE <<>>)

processCodeResultMessage(messageData) ==
    IF onChatAnswerReceived # Undefined
    THEN <<Send([command |-> Str("store-code-result-message-id"),
                 tabID |-> Get(messageData, "tabID"),
                 messageId |-> codeResultMessageId(messageData),
                 tabType |-> Str("featuredev")]),
           Call("onChatAnswerReceived",
                <<Get(messageData, "tabID"), codeResultAnswer(messageData)>>)>>
    ELSE <<>>

\* mutant: the system prompt is delivered before the plain answer
processAuthNeededException_Swapped(messageData) ==
    IF onChatAnswerReceived = Undefined
    THEN <<>>
    ELSE <<Call("onChatAnswerReceived",
                <<Get(messageData, "tabID"),
                  [type |-> ChatItemType_SYSTEM_PROMPT,
                   body |-> Undefined,
                   followUp |-> generateAuthFollowUps(Str("featuredev"),
                                                      Get(messageData, "authType")),
                   canBeVoted |-> Bool(FALSE)]>>),
           Call("onChatAnswerReceived",
                <<Get(messageData, "tabID"),
                  [type |-> ChatItemType_ANSWER,
                   body |-> Get(messageData, "message"),
                   followUp |-> Undefined,
                   canBeVoted |-> Bool(FALSE)]>>)>>

processAuthNeededException(messageData) ==
    IF onChatAnswerReceived = Undefined
    THEN <<>>
    ELSE <<Call("onChatAnswerReceived",
                <<Get(messageData, "tabID"),
                  [type |-> ChatItemType_ANSWER,
                   body |-> Get(messageData, "message"),
                   followUp |-> Undefined,
                   canBeVoted |-> Bool(FALSE)]>>),
           Call("onChatAnswerReceived",
                <<Get(messageData, "tabID"),
                  [type |-> ChatItemType_SYSTEM_PROMPT,
                   body |-> Undefined,
                   followUp |-> generateAuthFollowUps(Str("featuredev"),
                                                      Get(messageData, "authType")),
                   canBeVoted |-> Bool(FALSE)]>>)>>

\* mutant: the update is delivered as a new answer
updateChatAnswer_AsReceived(messageData) ==
    IF onChatAnswerReceived # Undefined
    THEN <<Call("onChatAnswerReceived",
                <<Get(messageData, "tabID"), createAnswer(messageData)>>)>>
    ELSE <<>>

\* this.onChatAnswerUpdated?.(messageData.tabID, answer)
updateChatAnswer(messageData) ==
    IF onChatAnswerUpdated # Undefined
    THEN <<Call("onChatAnswerUpdated",
                <<Get(messageData, "tabID"), createAnswer(messageData)>>)>>
    ELSE <<>>

\* mutant: the cancel-button flag is read from the record
asyncEventProgress_FlagFromRecord(messageData) ==
    <<Call("onAsyncEventProgress",
           <<Get(messageData, "tabID"),
             Get(messageData, "inProgress"),
             NullishCoalesce(Get(messageData, "message"), Undefined),
             NullishCoalesce(Get(messageData, "cancelButtonWhenLoading"), Bool(TRUE))>>)>>

asyncEventProgress(messageData) ==
    <<Call("onAsyncEventProgress",
           <<Get(messageData, "tabID"),
             Get(messageData, "inProgress"),
             NullishCoalesce(Get(messageData, "message"), Undefined),
             Bool(TRUE)>>)>>

handleMessageReceive(messageData) ==
    LET type == Get(messageData, "type") IN
    IF type = Str("updateFileComponent")
    THEN <<Call("onFileComponentUpdate",
                <<Get(messageData, "tabID"), Get(messageData, "filePaths"),
                  Get(messageData, "deletedFiles"), Get(messageData, "messageId"),
                  Get(messageData, "disableFileActions")>>)>>
    ELSE IF type = Str("updateChatAnswer")
    THEN updateChatAnswer(messageData)
    ELSE IF type = Str("errorMessage")
    THEN <<Call("onError",
                <<Get(messageData, "tabID"), Get(messageData, "message"),
                  Get(messageData, "title")>>)>>
    ELSE IF type = Str("showInvalidTokenNotification")
    THEN <<Call("onWarning",
                <<Get(messageData, "tabID"), Get(messageData, "message"),
                  Get(messageData, "title")>>)>>
    ELSE IF type = Str("chatMessage")
    THEN processChatMessage(messageData)
    ELSE IF type = Str("codeResultMessage")
    THEN processCodeResultMessage(messageData)
    ELSE IF type = Str("asyncEventProgressMessage")
    THEN asyncEventProgress(messageData)
    ELSE IF type = Str("updatePlaceholderMessage")
    THEN <<Call("onUpdatePlaceholder",
                <<Get(messageData, "tabID"), Get(messageData, "newPlaceholder")>>)>>
    ELSE IF type = Str("chatInputEnabledMessage")
    THEN <<Call("onChatInputEnabled",
                <<Get(messageData, "tabID"), Get(messageData, "enabled")>>)>>
    ELSE IF type = Str("authenticationUpdateMessage")
    THEN <<Call("onUpdateAuthentication",
                <<Get(messageData, "featureDevEnabled"),
                  Get(messageData, "codeTransformEnabled"),
                  Get(messageData, "docEnabled"),
                  Get(messageData, "codeScanEnabled"),
                  Get(messageData, "codeTestEnabled"),
                  Get(messageData, "authenticatingTabIDs")>>)>>
    ELSE IF type = Str("authNeededException")
    THEN processAuthNeededException(messageData)
    ELSE IF type = Str("openNewTabMessage")
    THEN <<Call("onNewTab", <<Str("featuredev")>>)>>
    ELSE <<>>

----------------------------------------------------------------------------
(* Inputs *)

TabIDs == {Str("tab-1"), Str("tab-2")}

\* DiffTreeFileInfo entries
DiffTreeFileInfos ==
    {[zipFilePath |-> Str("src/a.ts"), relativePath |-> Str("a.ts"), rejected |-> Bool(FALSE)],
     [zipFilePath |-> Str("src/b.ts"), relativePath |-> Str("b.ts"), rejected |-> Bool(TRUE)]}

FilePathsValues == {Arr(a) : a \in SeqsUpTo(DiffTreeFileInfos, MaxFiles)}
DeletedFilesValues == {Arr(a) : a \in SeqsUpTo(DiffTreeFileInfos, MaxDeleted)}

\* ChatItemAction entries
ChatItemActions ==
    {[pillText |-> Str("Retry"), type |-> Str("Retry")],
     [pillText |-> Str("Insert code"), type |-> Str("InsertCode")]}

FollowUpsValues ==
    {Undefined, Null, Str("not-a-sequence")}
        \cup {Arr(a) : a \in SeqsUpTo(ChatItemActions, MaxFollowUps)}

OptionalText(s) == {Undefined, Null, Str(""), Str(s)}

\* records of the tags that go through createAnswer
AnswerMessages(tag) ==
    [type : {Str(tag)},
     tabID : TabIDs,
     messageType : {ChatItemType_ANSWER, ChatItemType_SYSTEM_PROMPT},
     message : {Undefined, Str("Here is the plan")},
     messageId : OptionalText("message-id"),
     messageID : {Undefined, Str("message-ID")},
     triggerID : {Undefined, Null, Str("trigger-id")},
     conversationID : {Undefined, Str("conversation-id")},
     canBeVoted : {Undefined, Bool(TRUE)},
     followUps : FollowUpsValues]

CodeResultMessages ==
    [type : {Str("codeResultMessage")},
     tabID : TabIDs,
     messageId : OptionalText("message-id"),
     messageID : {Undefined, Str("message-ID")},
     triggerID : {Undefined, Null, Str("trigger-id")},
     conversationID : {Undefined, Null, Str("conversation-id")},
     codeGenerationId : {Undefined, Str("code-generation-id")},
     filePaths : FilePathsValues,
     deletedFiles : DeletedFilesValues]

UpdateFileComponentMessages ==
    [type : {Str("updateFileComponent")},
     tabID : TabIDs,
     filePaths : FilePathsValues,
     deletedFiles : DeletedFilesValues,
     messageId : {Undefined, Str("message-id")},
     disableFileActions : {Bool(TRUE), Bool(FALSE)}]

NotificationMessages ==
    [type : {Str("errorMessage"), Str("showInvalidTokenNotification")},
     tabID : TabIDs,
     message : {Undefined, Str("Something went wrong")},
     title : {Undefined, Str("Error")}]

AsyncEventProgressMessages ==
    [type : {Str("asyncEventProgressMessage")},
     tabID : TabIDs,
     inProgress : {Bool(TRUE), Bool(FALSE)},
     message : OptionalText("Generating code"),
     cancelButtonWhenLoading : {Undefined, Bool(FALSE)}]

UpdatePlaceholderMessages ==
    [type : {Str("updatePlaceholderMessage")},
     tabID : TabIDs,
     newPlaceholder : {Undefined, Str("Describe your task")}]

ChatInputEnabledMessages ==
    [type : {Str("chatInputEnabledMessage")},
     tabID : TabIDs,
     enabled : {Bool(TRUE), Bool(FALSE)}]

AuthenticationUpdateMessages ==
    [type : {Str("authenticationUpdateMessage")},
     featureDevEnabled : {Bool(TRUE), Bool(FALSE)},
     codeTransformEnabled : {Bool(TRUE), Bool(FALSE)},
     docEnabled : {Bool(TRUE)},
     codeScanEnabled : {Bool(FALSE)},
     codeTestEnabled : {Bool(TRUE), Bool(FALSE)},
     authenticatingTabIDs : {Arr(<<>>), Arr(<<Str("tab-1")>>)}]

AuthNeededExceptionMessages ==
    [type : {Str("authNeededException")},
     tabID : TabIDs,
     message : {Undefined, Str("Authentication is required")},
     authType : {Undefined, Str("full-auth"), Str("re-auth")}]

OpenNewTabMessages ==
    [type : {Str("openNewTabMessage")}]

\* records of a tag the dispatch does not know, or of no tag at all
OtherMessages ==
    [type : {Str("unknownMessage"), Str("chatmessage"), Undefined, Null},
     tabID : TabIDs,
     message : {Undefined, Str("ignored")}]
        \cup [tabID : TabIDs]

\* records of the same tags that hold nothing but the tag, the tab and a type
BareAnswerMessages ==
    [type : {Str("updateChatAnswer"), Str("chatMessage")},
     tabID : TabIDs,
     messageType : {ChatItemType_ANSWER, ChatItemType_ANSWER_STREAM}]

InboundMessages ==
    AnswerMessages("updateChatAnswer") \cup AnswerMessages("chatMessage")
        \cup BareAnswerMessages
        \cup CodeResultMessages \cup UpdateFileComponentMessages
        \cup NotificationMessages \cup AsyncEventProgressMessages
        \cup UpdatePlaceholderMessages \cup ChatInputEnabledMessages
        \cup AuthenticationUpdateMessages \cup AuthNeededExceptionMessages
        \cup OpenNewTabMessages \cup OtherMessages

Codes == {Undefined, Str("const x = 1")}
SelectionTypes == {Undefined, Str("selection"), Str("block")}
CodeReferences == {Undefined, Arr(<<>>), Arr(<<[licenseName |-> Str("MIT")]>>)}
MessageIds == {Str("message-id"), Str("")}

\* FeedbackPayload records, and records that carry more keys than the type names
FeedbackPayloads ==
    [messageId : {Str("message-id")}, tabId : TabIDs, selectedOption : {Str("helpful")}]
        \cup [messageId : {Str("message-id")}, tabId : TabIDs,
              selectedOption : {Str("not-helpful")}, comment : {Undefined, Str("too slow")}]
        \cup [messageId : {Str("message-id")}, tabId : TabIDs,
              selectedOption : {Str("helpful")}, command : {Str("chat-prompt")}]
        \cup [messageId : {Str("message-id")}, tabId : TabIDs,
              selectedOption : {Str("helpful")},
              tabID : {Str("tab-9")}, tabType : {Str("cwc")}]

ChatPayloads == {[chatMessage |-> Str("Add a unit test")], [chatMessage |-> Str("")]}

----------------------------------------------------------------------------
(* The state machine *)

Init ==
    /\ onChatAnswerReceived \in {Undefined, Callback}
    /\ onChatAnswerUpdated \in {Undefined, Callback}
    /\ pc = "idle"
    /\ op = [method |-> "none", args |-> <<>>]
    /\ calls = <<>>
    /\ promises = <<>>

\* One operation on the Connector, called when none is running: it runs to its
\* end, making `made`.
Run(method, args, made) ==
    /\ pc' = "called"
    /\ op' = [method |-> method, args |-> args]
    /\ calls' = made
    /\ UNCHANGED <<onChatAnswerReceived, onChatAnswerUpdated>>

OnCodeInsertToCursorPosition ==
    /\ pc = "idle"
    /\ \E tabID \in TabIDs, code \in Codes, type \in SelectionTypes, ref \in CodeReferences :
           /\ Run("onCodeInsertToCursorPosition", <<tabID, code, type, ref>>,
                  onCodeInsertToCursorPosition(tabID, code, type, ref))
           /\ UNCHANGED promises

OnCopyCodeToClipboard ==
    /\ pc = "idle"
    /\ \E tabID \in TabIDs, code \in Codes, type \in SelectionTypes, ref \in CodeReferences :
           /\ Run("onCopyCodeToClipboard", <<tabID, code, type, ref>>,
                  onCopyCodeToClipboard(tabID, code, type, ref))
           /\ UNCHANGED promises

OnOpenDiff ==
    /\ pc = "idle"
    /\ \E tabID \in TabIDs, filePath \in {Str("src/a.ts"), Str("src/b.ts")},
          deleted \in {Bool(TRUE), Bool(FALSE)} :
           /\ Run("onOpenDiff", <<tabID, filePath, deleted>>,
                  onOpenDiff(tabID, filePath, deleted))
           /\ UNCHANGED promises

FollowUpClicked ==
    /\ pc = "idle"
    /\ \E tabID \in TabIDs, followUp \in ChatItemActions :
           /\ Run("followUpClicked", <<tabID, followUp>>, followUpClicked(tabID, followUp))
           /\ UNCHANGED promises

RequestGenerativeAIAnswer ==
    /\ pc = "idle"
    /\ \E tabID \in TabIDs, payload \in ChatPayloads :
           /\ Len(promises) < MaxPromises
           /\ Run("requestGenerativeAIAnswer", <<tabID, payload>>,
                  requestGenerativeAIAnswer(tabID, payload))
           /\ promises' = Append(promises, [tabID |-> tabID, state |-> PromiseAfterExecutor])

OnFileActionClick ==
    /\ pc = "idle"
    /\ \E tabID \in TabIDs, messageId \in MessageIds,
          filePath \in {Str("src/a.ts"), Str("src/b.ts")},
          actionName \in {Str("reject-change"), Str("revert-rejection")} :
           /\ Run("onFileActionClick", <<tabID, messageId, filePath, actionName>>,
                  onFileActionClick(tabID, messageId, filePath, actionName))
           /\ UNCHANGED promises

HandleMessageReceive ==
    /\ pc = "idle"
    /\ \E messageData \in InboundMessages :
           /\ Run("handleMessageReceive", <<messageData>>, handleMessageReceive(messageData))
           /\ UNCHANGED promises

OnStopChatResponse ==
    /\ pc = "idle"
    /\ \E tabID \in TabIDs :
           /\ Run("onStopChatResponse", <<tabID>>, onStopChatResponse(tabID))
           /\ UNCHANGED promises

OnTabOpen ==
    /\ pc = "idle"
    /\ \E tabID \in TabIDs :
           /\ Run("onTabOpen", <<tabID>>, onTabOpen(tabID))
           /\ UNCHANGED promises

OnTabRemove ==
    /\ pc = "idle"
    /\ \E tabID \in TabIDs :
           /\ Run("onTabRemove", <<tabID>>, onTabRemove(tabID))
           /\ UNCHANGED promises

SendFeedback ==
    /\ pc = "idle"
    /\ \E tabId \in TabIDs, feedbackPayload \in FeedbackPayloads :
           /\ Run("sendFeedback", <<tabId, feedbackPayload>>,
                  sendFeedback(tabId, feedbackPayload))
           /\ UNCHANGED promises

OnChatItemVoted ==
    /\ pc = "idle"
    /\ \E tabId \in TabIDs, messageId \in MessageIds, vote \in {Str("upvote"), Str("downvote")} :
           /\ Run("onChatItemVoted", <<tabId, messageId, vote>>,
                  onChatItemVoted(tabId, messageId, vote))
           /\ UNCHANGED promises

OnResponseBodyLinkClick ==
    /\ pc = "idle"
    /\ \E tabID \in TabIDs, messageId \in MessageIds, link \in {Str("https://aws.amazon.com")} :
           /\ Run("onResponseBodyLinkClick", <<tabID, messageId, link>>,
                  onResponseBodyLinkClick(tabID, messageId, link))
           /\ UNCHANGED promises

\* The operation has returned to its caller, which may make the next call.
Return ==
    /\ pc = "called"
    /\ pc' = "idle"
    /\ op' = [method |-> "none", args |-> <<>>]
    /\ calls' = <<>>
    /\ UNCHANGED <<onChatAnswerReceived, onChatAnswerUpdated, promises>>

Next ==
    \/ OnCodeInsertToCursorPosition
    \/ OnCopyCodeToClipboard
    \/ OnOpenDiff
    \/ FollowUpClicked
    \/ RequestGenerativeAIAnswer
    \/ OnFileActionClick
    \/ HandleMessageReceive
    \/ OnStopChatResponse
    \/ OnTabOpen
    \/ OnTabRemove
    \/ SendFeedback
    \/ OnChatItemVoted
    \/ OnResponseBodyLinkClick
    \/ Return

Spec == Init /\ [][Next]_vars

----------------------------------------------------------------------------
(* Observations used by the properties *)

\* an inbound record has just been dispatched
Dispatched == pc = "called" /\ op.method = "handleMessageReceive"

\* the record that was dispatched
Message == op.args[1]

IsSend(c) == c.fn = "sendMessageToExtension"
IsUICall(c) == c.fn # "sendMessageToExtension"

Sends == SelectSeq(calls, IsSend)
UICalls == SelectSeq(calls, IsUICall)

\* the record of tag `tag` has just been dispatched
DispatchedTag(tag) == Dispatched /\ Get(Message, "type") = Str(tag)

Missing(v) == v = Undefined \/ v = Null

\* the first of `fields` that the record holds a value for, Undefined when none
RECURSIVE FirstNonMissing(_, _)
FirstNonMissing(record, fields) ==
    IF fields = <<>> THEN Undefined
    ELSE IF ~Missing(Get(record, Head(fields))) THEN Get(record, Head(fields))
    ELSE FirstNonMissing(record, Tail(fields))

FivePrecedence == <<"messageId", "messageID", "triggerID", "conversationID", "codeGenerationId">>
ThreePrecedence == <<"messageId", "messageID", "triggerID">>

\* the UI callback of each recognized tag
TagCallback ==
    [updateFileComponent |-> "onFileComponentUpdate",
     updateChatAnswer |-> "onChatAnswerUpdated",
     errorMessage |-> "onError",
     showInvalidTokenNotification |-> "onWarning",
     chatMessage |-> "onChatAnswerReceived",
     codeResultMessage |-> "onChatAnswerReceived",
     asyncEventProgressMessage |-> "onAsyncEventProgress",
     updatePlaceholderMessage |-> "onUpdatePlaceholder",
     chatInputEnabledMessage |-> "onChatInputEnabled",
     authenticationUpdateMessage |-> "onUpdateAuthentication",
     authNeededException |-> "onChatAnswerReceived",
     openNewTabMessage |-> "onNewTab"]

Recognized(record) ==
    /\ Get(record, "type").k = "string"
    /\ Get(record, "type").s \in DOMAIN TagCallback

\* the documented command of each outbound method
DocumentedCommand ==
    [onCodeInsertToCursorPosition |-> "insert_code_at_cursor_position",
     onCopyCodeToClipboard |-> "code_was_copied_to_clipboard",
     onOpenDiff |-> "open-diff",
     followUpClicked |-> "follow-up-was-clicked",
     requestGenerativeAIAnswer |-> "chat-prompt",
     onFileActionClick |-> "file-click",
     onStopChatResponse |-> "stop-response",
     onTabOpen |-> "new-tab-was-created",
     onTabRemove |-> "tab-was-removed",
     sendFeedback |-> "chat-item-feedback",
     onChatItemVoted |-> "chat-item-voted",
     onResponseBodyLinkClick |-> "response-body-link-click"]

----------------------------------------------------------------------------
(* C1 *)

ExpectedUICalls(tag) ==
    IF tag = "authNeededException"
    THEN (IF onChatAnswerReceived # Undefined THEN 2 ELSE 0)
    ELSE IF tag \in {"chatMessage", "codeResultMessage"}
    THEN (IF onChatAnswerReceived # Undefined THEN 1 ELSE 0)
    ELSE IF tag = "updateChatAnswer"
    THEN (IF onChatAnswerUpdated # Undefined THEN 1 ELSE 0)
    ELSE 1

----------------------------------------------------------------------------
(* C2 *)

\* C2: every outbound method makes exactly one call, a send of a record whose
\* tabType is 'featuredev', whose tabID is the method's tab id argument and
\* whose command is the method's documented tag.
C2_OutboundRecord ==
    (pc = "called" /\ op.method \in DOMAIN DocumentedCommand) =>
        /\ Len(calls) = 1
        /\ IsSend(calls[1])
        /\ calls[1].args[1].tabType = Str("featuredev")
        /\ calls[1].args[1].tabID = op.args[1]
        /\ calls[1].args[1].command = Str(DocumentedCommand[op.method])

----------------------------------------------------------------------------
(* C3 *)

ZipFilePaths(files) == Arr([i \in 1..Len(files.a) |-> files.a[i].zipFilePath])

----------------------------------------------------------------------------
(* C4 *)

\* C4: an authNeededException, with onChatAnswerReceived registered, makes
\* exactly two calls of it for the record's tab: an ANSWER item with the
\* exception message as body, then a SYSTEM_PROMPT item with undefined body
\* and the follow-ups generated for ('featuredev', authType), neither votable;
\* without the callback it makes no call at all.
C4_AuthNeededTwoAnswers ==
    DispatchedTag("authNeededException") =>
        IF onChatAnswerReceived # Undefined
        THEN /\ Len(calls) = 2
             /\ \A i \in 1..2 :
                    /\ calls[i].fn = "onChatAnswerReceived"
                    /\ calls[i].args[1] = Get(Message, "tabID")
                    /\ calls[i].args[2].canBeVoted = Bool(FALSE)
             /\ calls[1].args[2].type = ChatItemType_ANSWER
             /\ calls[1].args[2].body = Get(Message, "message")
             /\ calls[2].args[2].type = ChatItemType_SYSTEM_PROMPT
             /\ calls[2].args[2].body = Undefined
             /\ calls[2].args[2].followUp =
                    generateAuthFollowUps(Str("featuredev"), Get(Message, "authType"))
        ELSE calls = <<>>

\* an exception with a message and an auth type was delivered
C4_Witness ==
    /\ DispatchedTag("authNeededException")
    /\ onChatAnswerReceived # Undefined
    /\ Message.message = Str("Authentication is required")
    /\ Message.authType = Str("re-auth")
    /\ Len(calls) = 2

----------------------------------------------------------------------------
(* C5 *)

\* C5: the message id of a codeResultMessage, in the send and in the answer,
\* is the first of messageId, messageID, triggerID, conversationID,
\* codeGenerationId that is neither undefined nor null.
C5_CodeResultMessageId ==
    (DispatchedTag("codeResultMessage") /\ onChatAnswerReceived # Undefined) =>
        /\ Len(calls) = 2
        /\ calls[1].args[1].messageId = FirstNonMissing(Message, FivePrecedence)
        /\ calls[2].args[2].messageId = FirstNonMissing(Message, FivePrecedence)
        /\ ((~Missing(Message.messageId) /\ ~Missing(Message.triggerID))
                => calls[2].args[2].messageId = Message.messageId)
        /\ ((/\ Missing(Message.messageId) /\ Missing(Message.messageID)
             /\ Missing(Message.triggerID)
             /\ ~Missing(Message.conversationID)
             /\ ~Missing(Message.codeGenerationId))
                => calls[2].args[2].messageId = Message.conversationID)

\* only conversationID and codeGenerationId were set
C5_Witness ==
    /\ DispatchedTag("codeResultMessage")
    /\ onChatAnswerReceived # Undefined
    /\ Missing(Message.messageId) /\ Missing(Message.messageID)
    /\ Missing(Message.triggerID)
    /\ ~Missing(Message.conversationID) /\ ~Missing(Message.codeGenerationId)
    /\ calls[1].args[1].messageId = Str("conversation-id")

----------------------------------------------------------------------------
(* C6 *)

\* createAnswer has built the answer that was handed to the UI
AnswerBuilt ==
    \/ DispatchedTag("chatMessage") /\ onChatAnswerReceived # Undefined
    \/ DispatchedTag("updateChatAnswer") /\ onChatAnswerUpdated # Undefined

\* the answer handed to the UI
Answer == calls[1].args[2]

\* C6: the answer's followUp is undefined when the record has no followUps or
\* followUps is not a sequence; otherwise its options are the followUps and
\* its text is '' exactly when messageType is the system-prompt type or the
\* sequence is empty, and 'Please follow up with one of these' in all other
\* cases.
C6_FollowUpBlock ==
    AnswerBuilt =>
        /\ Len(calls) = 1
        /\ IF Get(Message, "followUps") = Undefined \/ ~IsArray(Get(Message, "followUps"))
           THEN Answer.followUp = Undefined
           ELSE /\ Answer.followUp # Undefined
                /\ Answer.followUp.options = Message.followUps
                /\ Answer.followUp.text =
                       IF \/ Get(Message, "messageType") = ChatItemType_SYSTEM_PROMPT
                          \/ Message.followUps.a = <<>>
                       THEN Str("")
                       ELSE Str("Please follow up with one of these")

\* an answer that is no system prompt got an empty followUps sequence
C6_Witness ==
    /\ DispatchedTag("chatMessage")
    /\ onChatAnswerReceived # Undefined
    /\ Message.messageType = ChatItemType_ANSWER
    /\ Get(Message, "followUps") = Arr(<<>>)
    /\ Answer.followUp.text = Str("")

----------------------------------------------------------------------------
(* C7 *)

\* C7: requestGenerativeAIAnswer makes exactly one call, the send of
\* 'chat-prompt', and every promise it has returned is pending, whatever was
\* called or dispatched since.
C7_PromiseStaysPending ==
    /\ \A i \in 1..Len(promises) : promises[i].state = "pending"
    /\ (pc = "called" /\ op.method = "requestGenerativeAIAnswer") =>
           /\ Len(calls) = 1
           /\ IsSend(calls[1])
           /\ calls[1].args[1].command = Str("chat-prompt")
           /\ Len(promises) > 0
           /\ promises[Len(promises)].tabID = op.args[1]

\* after the prompt of a tab, an answer for the same tab was delivered
C7_Witness ==
    /\ promises # <<>>
    /\ \/ DispatchedTag("chatMessage")
       \/ DispatchedTag("codeResultMessage")
    /\ onChatAnswerReceived # Undefined
    /\ Message.tabID = promises[1].tabID
    /\ Len(UICalls) = 1

----------------------------------------------------------------------------
(* C8 *)

\* C8 as stated: the message id of an answer built by createAnswer is the
\* first non-missing of messageId, messageID, triggerID, conversationID,
\* codeGenerationId.
C8_SamePrecedence ==
    (AnswerBuilt /\ \E i \in 1..Len(FivePrecedence) :
                        ~Missing(Get(Message, FivePrecedence[i]))) =>
        Answer.messageId = FirstNonMissing(Message, FivePrecedence)

\* C8, amended: the message id of an answer built by createAnswer is the first
\* non-missing of messageId, messageID, triggerID, and the empty string when
\* all three are missing; conversationID and codeGenerationId are not read.
C8_ThreePrecedence ==
    AnswerBuilt =>
        Answer.messageId =
            IF \E i \in 1..Len(ThreePrecedence) : ~Missing(Get(Message, ThreePrecedence[i]))
            THEN FirstNonMissing(Message, ThreePrecedence)
            ELSE Str("")

\* an updateChatAnswer that carries only conversationID
C8_Witness ==
    /\ DispatchedTag("updateChatAnswer")
    /\ onChatAnswerUpdated # Undefined
    /\ \A i \in 1..Len(ThreePrecedence) : Missing(Get(Message, ThreePrecedence[i]))
    /\ Get(Message, "conversationID") = Str("conversation-id")
    /\ Answer.messageId = Str("")

----------------------------------------------------------------------------
(* C9 *)

\* C9: a missing optional callback leaves no effect: updateChatAnswer without
\* onChatAnswerUpdated, and chatMessage or codeResultMessage without
\* onChatAnswerReceived, make no call at all; and a dispatch sends to the host
\* only for a codeResultMessage with onChatAnswerReceived registered.
C9_MissingCallbacks ==
    Dispatched =>
        /\ (Get(Message, "type") = Str("updateChatAnswer") /\ onChatAnswerUpdated = Undefined)
               => calls = <<>>
        /\ (/\ Get(Message, "type") \in {Str("chatMessage"), Str("codeResultMessage")}
            /\ onChatAnswerReceived = Undefined)
               => calls = <<>>
        /\ Sends # <<>> =>
               /\ Get(Message, "type") = Str("codeResultMessage")
               /\ onChatAnswerReceived # Undefined

\* a codeResultMessage with files was dispatched without onChatAnswerReceived
C9_Witness ==
    /\ DispatchedTag("codeResultMessage")
    /\ onChatAnswerReceived = Undefined
    /\ Message.filePaths.a # <<>>
    /\ calls = <<>>

----------------------------------------------------------------------------
(* C10 *)

\* C10 as stated: asyncEventProgressMessage calls onAsyncEventProgress once
\* with tabID, inProgress, the message text or '' when there is none, and true.
C10_EmptyStringWhenMissing ==
    DispatchedTag("asyncEventProgressMessage") =>
        calls = <<Call("onAsyncEventProgress",
                       <<Message.tabID, Message.inProgress,
                         IF Missing(Message.message) THEN Str("") ELSE Message.message,
                         Bool(TRUE)>>)>>

\* C10, amended: asyncEventProgressMessage calls onAsyncEventProgress once with
\* tabID, inProgress, the record's message, or undefined when that is undefined
\* or null, and a cancel-button flag that is true whatever the record holds.
C10_UndefinedWhenMissing ==
    DispatchedTag("asyncEventProgressMessage") =>
        calls = <<Call("onAsyncEventProgress",
                       <<Message.tabID, Message.inProgress,
                         IF Missing(Message.message) THEN Undefined ELSE Message.message,
                         Bool(TRUE)>>)>>

\* a record with a null message and its own cancel-button flag was dispatched
C10_Witness ==
    /\ DispatchedTag("asyncEventProgressMessage")
    /\ Message.message = Null
    /\ Message.cancelButtonWhenLoading = Bool(FALSE)
    /\ calls[1].args[3] = Undefined
    /\ calls[1].args[4] = Bool(TRUE)

====
